---- MODULE Spec2Model ----
(***************************************************************************)
(* Model of find_affected.py: the Package record, the Package2Affection    *)
(* table with its sequential driver (process_matching / process_package)   *)
(* and the SchrootSession context manager.                                  *)
(*                                                                         *)
(* Specifications.  Spec: the driver.  SpecInterrupt: the driver killed at *)
(* any point of a run.  SpecCall: the driver with process_package called   *)
(* by itself.  SpecRun: one process_matching run that is never held up.    *)
(* SpecMain: runs started by _main.  SpecMapping: the                      *)
(* methods of the mapping called in any order.  SpecCache and SpecPackage: *)
(* add_from_apt_cache and the pure functions on drawn inputs.  SpecDebdiff *)
(* and SpecWrapper: save_debdiff and schroot-wrapper main, whose code is   *)
(* known here through their tests only.                                    *)
(*                                                                         *)
(* Encoding.  A Python value that may be None is a sequence of length at   *)
(* most one: <<>> is None, <<x>> is the value x.  A string is a sequence   *)
(* of character codes, compared byte by byte as SQLite's BINARY collation  *)
(* does.  A regular expression is a literal string (the empty literal      *)
(* matches everywhere, as ".*" does).                                      *)
(***************************************************************************)
EXTENDS Integers, Sequences, FiniteSets, TLC

VARIABLES
    table,      \* package_affected: name -> row of the SQLite table
    pc,         \* position of the sequential driver
    params,     \* arguments of the running process_matching
    cursor,     \* rows the cursor of iter_unprocessed has still to fetch
    cur,        \* argument `package` of the running process_package
    session,    \* SchrootSession.session of the live context manager
    nopen,      \* number of sessions the program has begun and not ended
    leaving,    \* how control leaves the current with-block
    dur,        \* local `duration` of process_package while it is still read
    trace,      \* external commands of the current/last process_package
    result,     \* how the last operation finished
    timedout,   \* a probe of the running process_matching timed out
    last,       \* the process_matching that just ran to completion
    rerun,      \* the process_matching just called repeats `last` with retry 0
    disk,       \* the database file: None when empty, else the committed table
    files,      \* the directory save_debdiff writes to: filename -> file
    arg,        \* input of the function under test (SpecPackage)
    out         \* value the function under test returned (SpecPackage)

vars == <<table, pc, params, cursor, cur, session, nopen, leaving, dur,
          trace, result, timedout, last, rerun, disk, files, arg, out>>

\* ------------------------------------------------------------------ bounds
MaxDur == 1         \* durations are 1..MaxDur seconds, --retry is 0 or MaxDur
MaxWrites == 3      \* writes save_debdiff makes to the directory

\* ------------------------------------------------------------ value sets
None == <<>>
Some(x) == <<x>>
Option(S) == {None} \cup {Some(x) : x \in S}

Names == {<<1>>, <<1, 2>>}
Sources == {<<1>>}
Sections == {<<1>>, <<2>>}
Versions == {"1.0-2"}
PackageRegexes == {<<>>, <<2>>}
SectionRegexes == {<<>>, <<1>>}
Durations == 1..MaxDur
Retries == {0, MaxDur}
ReturnCodes == {0, 100}

\* What a probe (apt-get inside the session) can do: exceed the timeout, or
\* finish with an exit status and an output that has the marker or not.
Outcomes ==
    {[timeout |-> TRUE, marker |-> FALSE, rc |-> 0]} \cup
    {[timeout |-> FALSE, marker |-> m, rc |-> r] : m \in BOOLEAN, r \in ReturnCodes}

\* ------------------------------------------------------------ class Package
\* bool(x) for an INTEGER column.
Bool(x) == x # 0

\* The adapter of sqlite3 stores True as 1 and False as 0.
ToSql(b) == IF b = None THEN None ELSE Some(IF b[1] THEN 1 ELSE 0)

from_sql(name, row) ==
    [name |-> name,
     source |-> row.source,
     section |-> row.section,
     install_affected |->
         IF row.install_affected # None THEN Some(Bool(row.install_affected[1])) ELSE None,
     install_duration |-> row.install_duration,
     install_version |-> row.install_version,
     remove_affected |->
         IF row.remove_affected # None THEN Some(Bool(row.remove_affected[1])) ELSE None,
     remove_duration |-> row.remove_duration]

\* Mutant: the test `install_affected is True` is lost.
needs_proccessing_any_install(p) ==
    \/ p.install_duration = None
    \/ p.remove_duration = None

\* Mutant: the unset flag is tested where the unset duration should be.
needs_proccessing_unset_flag(p) ==
    \/ p.install_affected = None
    \/ (p.install_affected = Some(TRUE) /\ p.remove_duration = None)

\* Mutant: a missing removal result is not looked at.
needs_proccessing_install_only(p) == p.install_duration = None

needs_proccessing(p) ==
    \/ p.install_duration = None
    \/ (p.install_affected = Some(TRUE) /\ p.remove_duration = None)

\* Mutant: only the install leg makes a package a candidate for a retry.
needs_retry_install_only(p, retry_limit) ==
    /\ p.install_affected = None
    /\ p.install_duration # None
    /\ p.install_duration[1] <= retry_limit

needs_retry(p, retry_limit) ==
    \/ /\ p.install_affected = None
       /\ p.install_duration # None
       /\ p.install_duration[1] <= retry_limit
    \/ /\ p.remove_affected = None
       /\ p.remove_duration # None
       /\ p.remove_duration[1] <= retry_limit

\* ------------------------------------------------- class Package2Affection
NewRow(source, section) ==
    [source |-> source, section |-> section,
     install_affected |-> None, install_duration |-> None,
     install_version |-> None,
     remove_affected |-> None, remove_duration |-> None]

\* Mutant: the UPDATE leaves install_version out.
set_install_without_version(t, package, affected, duration, version) ==
    IF package \in DOMAIN t
    THEN [t EXCEPT ![package].install_affected = ToSql(affected),
                   ![package].install_duration = Some(duration)]
    ELSE t

\* Mutant: the UPDATE has no WHERE clause.
set_install_every_row(t, package, affected, duration, version) ==
    [n \in DOMAIN t |->
        [t[n] EXCEPT !.install_affected = ToSql(affected),
                     !.install_duration = Some(duration),
                     !.install_version = version]]

\* Mutant: an unset version leaves the stored install_version in place.
set_install_keeps_version(t, package, affected, duration, version) ==
    IF package \in DOMAIN t
    THEN [t EXCEPT ![package].install_affected = ToSql(affected),
                   ![package].install_duration = Some(duration),
                   ![package].install_version =
                       IF version = None THEN @ ELSE version]
    ELSE t

\* UPDATE ... WHERE package = ?: no row, no change.
set_install(t, package, affected, duration, version) ==
    IF package \in DOMAIN t
    THEN [t EXCEPT ![package].install_affected = ToSql(affected),
                   ![package].install_duration = Some(duration),
                   ![package].install_version = version]
    ELSE t

set_remove(t, package, affected, duration) ==
    IF package \in DOMAIN t
    THEN [t EXCEPT ![package].remove_affected = ToSql(affected),
                   ![package].remove_duration = Some(duration)]
    ELSE t

\* Mutant: the commit after the statement is missing.
commit_missing(connection, file) == file

\* connection.commit(): the file holds what the connection sees.
commit(connection, file) == Some(connection)

\* Mutant: the tables are created anew at every opening.
CreateTables_always(file) == TRUE

\* __init__ creates the table when the database file is missing or empty.
CreateTables(file) == file = None

\* The table a new Package2Affection sees on the file, and the file then.
Opened(file) == IF CreateTables(file) THEN <<>> ELSE file[1]

\* Mutant: INSERT OR REPLACE.
Conflict_replaces(t, package) == FALSE

\* package TEXT PRIMARY KEY UNIQUE NOT NULL: the INSERT of a stored name fails.
Conflict(t, package) == package \in DOMAIN t

\* The table after a row for `package` has been written.
Inserted(t, package, source, section) ==
    [n \in DOMAIN t \cup {package} |->
        IF n = package THEN NewRow(source, section) ELSE t[n]]

\* Mutant: bool() of the column without the test for None.
getitem_bool(t, key) ==
    IF key \notin DOMAIN t THEN "KeyError"
    ELSE Some(t[key].install_affected = Some(1))

\* __getitem__: "KeyError" for an absent key, else None / True / False.
getitem(t, key) ==
    IF key \notin DOMAIN t THEN "KeyError"
    ELSE IF t[key].install_affected = None THEN None
    ELSE Some(Bool(t[key].install_affected[1]))

\* __len__: SELECT COUNT(*)
len(t) == Cardinality(DOMAIN t)

\* is_empty: SELECT 1 ... LIMIT 1 fetches nothing.
is_empty(t) == \A n \in DOMAIN t : FALSE

\* Byte-wise string comparison.
RECURSIVE StrLess(_, _)
StrLess(a, b) ==
    IF b = <<>> THEN FALSE
    ELSE IF a = <<>> THEN TRUE
    ELSE IF Head(a) = Head(b) THEN StrLess(Tail(a), Tail(b))
    ELSE Head(a) < Head(b)

\* __iter__: SELECT package ... ORDER BY package ASC, fetched to the end.
RECURSIVE OrderByPackage(_)
OrderByPackage(S) ==
    IF S = {} THEN <<>>
    ELSE LET first == CHOOSE a \in S : \A b \in S \ {a} : StrLess(a, b)
         IN  <<first>> \o OrderByPackage(S \ {first})

iter(t) == OrderByPackage(DOMAIN t)

\* Mutant: ORDER BY package ASC alone.
RowBefore_by_package(t, a, b) == StrLess(a, b)

\* ORDER BY section ASC, package ASC
RowBefore(t, a, b) ==
    \/ StrLess(t[a].section, t[b].section)
    \/ (t[a].section = t[b].section /\ StrLess(a, b))

RECURSIVE OrderBy(_, _)
OrderBy(t, S) ==
    IF S = {} THEN <<>>
    ELSE LET first == CHOOSE a \in S : \A b \in S \ {a} : RowBefore(t, a, b)
         IN  <<from_sql(first, t[first])>> \o OrderBy(t, S \ {first})

\* SELECT * FROM package_affected ORDER BY section ASC, package ASC
SelectAll(t) == OrderBy(t, DOMAIN t)

\* re.search of a literal pattern: it occurs somewhere in the string.
search(regex, string) ==
    \E i \in 0..(Len(string) - Len(regex)) :
        SubSeq(string, i + 1, i + Len(regex)) = regex

\* The condition under which iter_unprocessed yields a fetched row.
Unprocessed(package, package_regex, section_regex, retry) ==
    /\ (needs_proccessing(package) \/ needs_retry(package, retry))
    /\ search(package_regex, package.name)
    /\ search(section_regex, package.section)

\* Rows skipped by the fetch loop of iter_unprocessed before it yields.
RECURSIVE SkipProcessed(_, _)
SkipProcessed(rows, p) ==
    IF rows = <<>> THEN <<>>
    ELSE IF Unprocessed(Head(rows), p.only, p.section, p.retry) THEN rows
    ELSE SkipProcessed(Tail(rows), p)

\* The names iter_unprocessed yields from the fetched rows when it is run to
\* its end.
RECURSIVE iter_unprocessed(_, _)
iter_unprocessed(rows, p) ==
    LET rest == SkipProcessed(rows, p) IN
    IF rest = <<>> THEN <<>>
    ELSE <<Head(rest).name>> \o iter_unprocessed(Tail(rest), p)

\* ----------------------------------------------------- add_from_apt_cache
\* The APT cache: a sequence of packages, each with an architecture and a list
\* of versions; a version has a source name and a list of origins.
Architectures == {"amd64", "i386"}
Origin(origin, component) == [origin |-> origin, component |-> component]
Version(source_name, origins) == [source_name |-> source_name, origins |-> origins]

\* What the cache can say about one name: a foreign-architecture package from
\* Ubuntu, a package from a PPA alone, a package whose only version has a PPA
\* origin before the Ubuntu one, a package whose second version is Ubuntu's.
CachePackages(name) ==
    {[name |-> name, architecture |-> "i386",
      versions |-> <<Version(<<1>>, <<Origin("Ubuntu", <<1>>)>>)>>],
     [name |-> name, architecture |-> "amd64",
      versions |-> <<Version(<<1>>, <<Origin("LP-PPA", <<1>>)>>)>>],
     [name |-> name, architecture |-> "amd64",
      versions |-> <<Version(<<1>>, <<Origin("LP-PPA", <<2>>),
                                     Origin("Ubuntu", <<1>>)>>)>>],
     [name |-> name, architecture |-> "amd64",
      versions |-> <<Version(<<1>>, <<Origin("LP-PPA", <<1>>)>>),
                     Version(<<1>>, <<Origin("Ubuntu", <<2>>)>>)>>]}

Caches ==
    {<<>>} \cup
    {<<p>> : p \in CachePackages(<<1>>) \cup CachePackages(<<1, 2>>)} \cup
    {<<p, q>> : p \in CachePackages(<<1>>), q \in CachePackages(<<1, 2>>)}

\* for origin in version.origins: the origin the loop breaks at, or None.
RECURSIVE UbuntuOrigin(_)
UbuntuOrigin(origins) ==
    IF origins = <<>> THEN None
    ELSE IF Head(origins).origin = "Ubuntu" THEN Some(Head(origins))
    ELSE UbuntuOrigin(Tail(origins))

\* Mutant: only the first version of a package is looked at.
UbuntuVersion_first(versions) ==
    IF versions = <<>> THEN None
    ELSE IF UbuntuOrigin(Head(versions).origins) # None
    THEN Some([source_name |-> Head(versions).source_name,
               component |-> UbuntuOrigin(Head(versions).origins)[1].component])
    ELSE None

\* for version in package.versions: the first version with an Ubuntu origin,
\* as the (source, section) the INSERT takes from it, or None.
RECURSIVE UbuntuVersion(_)
UbuntuVersion(versions) ==
    IF versions = <<>> THEN None
    ELSE IF UbuntuOrigin(Head(versions).origins) # None
    THEN Some([source_name |-> Head(versions).source_name,
               component |-> UbuntuOrigin(Head(versions).origins)[1].component])
    ELSE UbuntuVersion(Tail(versions))

\* Mutant: INSERT OR REPLACE, a stored row is written anew.
InsertOrNothing_replace(t, package, source, section) ==
    Inserted(t, package, source, section)

\* INSERT ... ON CONFLICT(package) DO NOTHING
InsertOrNothing(t, package, source, section) ==
    IF Conflict(t, package) THEN t ELSE Inserted(t, package, source, section)

\* for package in cache: the table and the counter `added` after the loop.
\* The counter is incremented after every INSERT statement.
RECURSIVE AddFromCache(_, _, _, _)
AddFromCache(t, cache, architecture, added) ==
    IF cache = <<>> THEN [table |-> t, added |-> added]
    ELSE LET package == Head(cache)
             found == UbuntuVersion(package.versions)
         IN  IF package.architecture # architecture \/ found = None
             THEN AddFromCache(t, Tail(cache), architecture, added)
             ELSE AddFromCache(
                      InsertOrNothing(t, package.name, found[1].source_name,
                                      found[1].component),
                      Tail(cache), architecture, added + 1)

\* --------------------------------------------------- class SchrootSession
Marker(o) == o.marker

\* Mutant: a timeout is taken for a clean run of the command.
install_timeout_unaffected(o) ==
    IF o.timeout THEN Some(FALSE)
    ELSE IF Marker(o) THEN Some(TRUE)
    ELSE IF o.rc # 0 THEN None
    ELSE Some(FALSE)

install(o) ==
    IF o.timeout THEN None
    ELSE IF Marker(o) THEN Some(TRUE)
    ELSE IF o.rc # 0 THEN None
    ELSE Some(FALSE)

\* Mutant: the exit status is looked at before the output.
remove_status_first(o) ==
    IF o.timeout THEN None
    ELSE IF o.rc # 0 THEN None
    ELSE IF Marker(o) THEN Some(TRUE)
    ELSE Some(FALSE)

remove(o) ==
    IF o.timeout THEN None
    ELSE IF Marker(o) THEN Some(TRUE)
    ELSE IF o.rc # 0 THEN None
    ELSE Some(FALSE)

\* One external command of process_package, as it appears in `trace`.
\* s: the session it ran in; timeout: subprocess.TimeoutExpired was caught;
\* d: the duration measured around it; res: what install or remove returned;
\* v: what get_version returned; err: the command raised.
Event(op, s, enc, timeout, d, res, v, err) ==
    [op |-> op, s |-> s, enc |-> enc, timeout |-> timeout, d |-> d,
     res |-> res, v |-> v, err |-> err]

Command(op, s, v, err) == Event(op, s, "-", FALSE, None, None, v, err)

Begun(tr) == Cardinality({i \in DOMAIN tr : tr[i].op = "begin"})

NoParams == [only |-> <<>>, section |-> <<>>, retry |-> 0]

\* -------------------------------------------------------------------- Init
\* Package2Affection(): a new database, _create_tables has run.
Idle ==
    /\ pc = "idle"
    /\ params = NoParams
    /\ cursor = <<>>
    /\ cur = None
    /\ session = None
    /\ nopen = 0
    /\ leaving = "-"
    /\ dur = None
    /\ trace = <<>>
    /\ result = "-"
    /\ timedout = FALSE
    /\ last = None
    /\ rerun = "no"

Init ==
    /\ table = <<>>
    /\ disk = Some(<<>>)
    /\ files = <<>>
    /\ Idle
    /\ arg = None
    /\ out = None

\* ------------------------------------------------------------ add_package
\* INSERT, then commit; sqlite3.IntegrityError leaves before the commit.
add_package(package, source, section) ==
    /\ pc = "idle"
    /\ IF Conflict(table, package)
       THEN /\ result' = "IntegrityError"
            /\ UNCHANGED <<table, disk>>
       ELSE /\ table' = Inserted(table, package, source, section)
            /\ disk' = commit(table', disk)
            /\ result' = "-"
    /\ last' = None
    /\ out' = None
    /\ UNCHANGED <<pc, params, cursor, cur, session, nopen, leaving, dur,
                   trace, timedout, rerun, files, arg>>

\* ------------------------------------------------------- process_matching
\* The call: iter_unprocessed compiles the filters and executes the SELECT;
\* the ORDER BY has no index to follow, so the rows are sorted before the
\* first one is fetched.
process_matching(only, section, retry) ==
    /\ pc = "idle"
    /\ pc' = "iter"
    /\ params' = [only |-> only, section |-> section, retry |-> retry]
    /\ cursor' = SelectAll(table)
    /\ rerun' = IF /\ last # None
                   /\ last[1].only = only
                   /\ last[1].section = section
                   /\ retry = 0
                THEN IF last[1].timedout THEN "after timeouts" ELSE "after clean run"
                ELSE "no"
    /\ last' = None
    /\ timedout' = FALSE
    /\ result' = "-"
    /\ out' = None
    /\ UNCHANGED <<table, cur, session, nopen, leaving, dur, trace, disk, files,
                   arg>>

\* Mutant: every turn of the for loop executes the SELECT anew.
Fetch_select_again ==
    /\ pc = "iter"
    /\ LET rest == SkipProcessed(SelectAll(table), params) IN
       IF rest = <<>>
       THEN /\ pc' = "idle"
            /\ last' = Some([only |-> params.only, section |-> params.section,
                             timedout |-> timedout])
            /\ cursor' = <<>>
            /\ params' = NoParams
            /\ cur' = None
            /\ timedout' = FALSE
       ELSE /\ pc' = "enter1"
            /\ cur' = Some(Head(rest).name)
            /\ cursor' = Tail(rest)
            /\ UNCHANGED <<last, params, timedout>>
    /\ trace' = <<>>
    /\ result' = "-"
    /\ rerun' = "no"
    /\ out' = None
    /\ UNCHANGED <<table, session, nopen, leaving, dur, disk, files, arg>>

\* One turn of the for loop: the generator fetches rows until one is to be
\* yielded, and process_package is called with it; or the rows are exhausted
\* and process_matching returns.
Fetch ==
    /\ pc = "iter"
    /\ LET rest == SkipProcessed(cursor, params) IN
       IF rest = <<>>
       THEN /\ pc' = "idle"
            /\ last' = Some([only |-> params.only, section |-> params.section,
                             timedout |-> timedout])
            /\ cursor' = <<>>
            /\ params' = NoParams
            /\ cur' = None
            /\ timedout' = FALSE
       ELSE /\ pc' = "enter1"
            /\ cur' = Some(Head(rest).name)
            /\ cursor' = Tail(rest)
            /\ UNCHANGED <<last, params, timedout>>
    /\ trace' = <<>>
    /\ result' = "-"
    /\ rerun' = "no"
    /\ out' = None
    /\ UNCHANGED <<table, session, nopen, leaving, dur, disk, files, arg>>

\* -------------------------------------------------------- process_package
\* Mutant: the first session is still open when the second block begins.
Ends_unless_next(how) == how \in {"return", "raise"}

\* Mutant: an exception skips schroot -e.
Ends_unless_raise(how) == how \in {"return", "next"}

\* `with` runs __exit__ however control leaves the block: by a return, by an
\* exception, or by reaching the next statement.
Ends(how) == how \in {"return", "raise", "next"}

\* What schroot -b prints: the identifier of the new session and a newline.
\* The k-th session of a call gets the one-character identifier <<k>>.
BeginStdout(k) == <<k, 10>>

\* The characters str.strip() removes at both ends.
Whitespace == {9, 10, 11, 12, 13, 32}

RECURSIVE lstrip(_)
lstrip(s) ==
    IF s # <<>> /\ Head(s) \in Whitespace THEN lstrip(Tail(s)) ELSE s

RECURSIVE rstrip(_)
rstrip(s) ==
    IF s # <<>> /\ s[Len(s)] \in Whitespace
    THEN rstrip(SubSeq(s, 1, Len(s) - 1))
    ELSE s

\* process.stdout.strip()
strip(s) == rstrip(lstrip(s))

\* The session of a call an identifier stands for.
Ordinal(identifier) == identifier[1]

\* assert self.session is not None, at the start of run()
AssertRun(s) == s # None

\* assert self.session, at the start of __exit__: neither None nor empty
AssertExit(s) == s # None /\ s[1] # <<>>

\* Mutant: __exit__ leaves the attribute as it is.
Ended_keeps(s) == s

\* self.session = None, at the end of __exit__
Ended(s) == None

\* with SchrootSession(chroot) as session: schroot -b
Enter ==
    /\ pc \in {"enter1", "enter2"}
    /\ session' = Some(strip(BeginStdout(Begun(trace) + 1)))
    /\ nopen' = nopen + 1
    /\ trace' = Append(trace, Command("begin", Begun(trace) + 1, None, FALSE))
    /\ pc' = IF pc = "enter1" THEN "install1" ELSE "install2"
    /\ UNCHANGED <<table, params, cursor, cur, leaving, dur, result, timedout,
                   last, rerun, disk, files, arg, out>>

\* Where a returning process_package goes on: in the for loop of
\* process_matching, or after the call when it was called by itself.
Caller == IF arg = None THEN "iter" ELSE "called"

\* __exit__: schroot -e; then the return, the exception or the next
\* statement that made control leave the block takes effect.
Exit ==
    /\ pc \in {"exit1", "exit2"}
    /\ IF Ends(leaving)
       THEN /\ AssertExit(session)
            /\ nopen' = nopen - 1
            /\ session' = Ended(session)
            /\ trace' = Append(trace, Command("end", Ordinal(session[1]), None,
                                              FALSE))
       ELSE UNCHANGED <<nopen, session, trace>>
    /\ IF leaving = "raise"
       THEN pc' = "raised" /\ result' = "raised"
       ELSE IF leaving = "next" /\ pc = "exit1"
       THEN pc' = "enter2" /\ result' = result
       ELSE pc' = Caller /\ result' = "returned"
    /\ leaving' = "-"
    /\ UNCHANGED <<table, params, cursor, cur, dur, timedout, last, rerun,
                   disk, files, arg, out>>

\* Mutant: the early return for None is missing.
AfterInstall1_no_return(install_affected) ==
    IF install_affected = Some(FALSE) THEN "version" ELSE "next"

\* Mutant: an inconclusive install goes on to the second block.
AfterInstall1_none_next(install_affected) ==
    IF install_affected = Some(FALSE) THEN "version" ELSE "next"

\* Mutant: an unaffected install goes on to the second block.
AfterInstall1_false_next(install_affected) ==
    IF install_affected = None THEN "return" ELSE "next"

\* What follows the ISO-8859-1 install: `return` after set_install when it is
\* None, get_version when it is False, the second block when it is True.
AfterInstall1(install_affected) ==
    IF install_affected = None THEN "return"
    ELSE IF install_affected = Some(FALSE) THEN "version"
    ELSE "next"

\* Mutant: the verdict of the UTF-8 install is recorded, as in the first block.
Recorded2_local(install_affected) == install_affected

\* The flag both set_install calls of the second block pass: the literal True,
\* whatever the local install_affected holds after the UTF-8 install.
Recorded2(install_affected) == Some(TRUE)

\* What follows the UTF-8 install: `return` after set_install when it is
\* None, else get_version.
AfterInstall2(install_affected) ==
    IF install_affected = None THEN "return" ELSE "version"

\* First block: install with ISO-8859-1.
Install1 ==
    /\ pc = "install1"
    /\ AssertRun(session)
    /\ \E o \in Outcomes, elapsed \in Durations :
        LET install_affected == install(o) IN
        /\ trace' = Append(trace, Event("install", Ordinal(session[1]), "ISO-8859-1",
                               o.timeout, Some(elapsed), install_affected, None, FALSE))
        /\ timedout' = (timedout \/ o.timeout)
        /\ IF AfterInstall1(install_affected) = "return"
           THEN /\ table' = set_install(table, cur[1], install_affected, elapsed, None)
                /\ disk' = commit(table', disk)
                /\ leaving' = "return"
                /\ pc' = "exit1"
                /\ UNCHANGED dur
           ELSE IF AfterInstall1(install_affected) = "version"
           THEN /\ pc' = "version1"
                /\ dur' = Some(elapsed)
                /\ UNCHANGED <<table, disk, leaving>>
           ELSE /\ leaving' = "next"
                /\ pc' = "exit1"
                /\ UNCHANGED <<table, disk, dur>>
    /\ UNCHANGED <<params, cursor, cur, session, nopen, result, last, rerun,
                   files, arg, out>>

\* get_version (dpkg -s with check=True, then an assert) either returns the
\* version or raises; set_install follows a returned version.
GetVersion1 ==
    /\ pc = "version1"
    /\ AssertRun(session)
    /\ \/ \E version \in Versions :
            /\ trace' = Append(trace, Command("get_version", Ordinal(session[1]),
                                              Some(version), FALSE))
            /\ table' = set_install(table, cur[1], Some(FALSE), dur[1],
                                    Some(version))
            /\ disk' = commit(table', disk)
            /\ leaving' = "return"
       \/ /\ trace' = Append(trace, Command("get_version", Ordinal(session[1]), None, TRUE))
          /\ leaving' = "raise"
          /\ UNCHANGED <<table, disk>>
    /\ dur' = None
    /\ pc' = "exit1"
    /\ UNCHANGED <<params, cursor, cur, session, nopen, result, timedout, last,
                   rerun, files, arg, out>>

\* Second block: install with UTF-8.
Install2 ==
    /\ pc = "install2"
    /\ AssertRun(session)
    /\ \E o \in Outcomes, elapsed \in Durations :
        LET install_affected == install(o) IN
        /\ trace' = Append(trace, Event("install", Ordinal(session[1]), "utf-8",
                               o.timeout, Some(elapsed), install_affected, None, FALSE))
        /\ timedout' = (timedout \/ o.timeout)
        /\ IF AfterInstall2(install_affected) = "return"
           THEN /\ table' = set_install(table, cur[1],
                                         Recorded2(install_affected), elapsed, None)
                /\ disk' = commit(table', disk)
                /\ leaving' = "return"
                /\ pc' = "exit2"
                /\ UNCHANGED dur
           ELSE /\ pc' = "version2"
                /\ dur' = Some(elapsed)
                /\ UNCHANGED <<table, disk, leaving>>
    /\ UNCHANGED <<params, cursor, cur, session, nopen, result, last, rerun,
                   files, arg, out>>

GetVersion2 ==
    /\ pc = "version2"
    /\ AssertRun(session)
    /\ \/ \E version \in Versions :
            /\ trace' = Append(trace, Command("get_version", Ordinal(session[1]),
                                              Some(version), FALSE))
            /\ table' = set_install(table, cur[1],
                                     Recorded2(trace[Len(trace)].res), dur[1],
                                     Some(version))
            /\ disk' = commit(table', disk)
            /\ pc' = "remove"
            /\ UNCHANGED leaving
       \/ /\ trace' = Append(trace, Command("get_version", Ordinal(session[1]), None, TRUE))
          /\ leaving' = "raise"
          /\ pc' = "exit2"
          /\ UNCHANGED <<table, disk>>
    /\ dur' = None
    /\ UNCHANGED <<params, cursor, cur, session, nopen, result, timedout, last,
                   rerun, files, arg, out>>

\* The removal probe, in the block of the UTF-8 install; the block ends here.
Remove ==
    /\ pc = "remove"
    /\ AssertRun(session)
    /\ \E o \in Outcomes, elapsed \in Durations :
        LET remove_affected == remove(o) IN
        /\ trace' = Append(trace, Event("remove", Ordinal(session[1]), "ISO-8859-1",
                               o.timeout, Some(elapsed), remove_affected, None, FALSE))
        /\ timedout' = (timedout \/ o.timeout)
        /\ table' = set_remove(table, cur[1], remove_affected, elapsed)
        /\ disk' = commit(table', disk)
    /\ leaving' = "next"
    /\ pc' = "exit2"
    /\ UNCHANGED <<dur, params, cursor, cur, session, nopen, result, last,
                   rerun, files, arg, out>>

\* The program is killed in the middle of a run: the connection and whatever
\* it had not committed are gone, the file stays.  The sessions of the dead
\* program are not counted any more.
Interrupt ==
    /\ pc \in {"iter", "enter1", "install1", "version1", "exit1",
               "enter2", "install2", "version2", "remove", "exit2"}
    /\ pc' = "interrupted"
    /\ table' = Opened(disk)
    /\ result' = "interrupted"
    /\ cursor' = <<>>
    /\ session' = None
    /\ nopen' = 0
    /\ leaving' = "-"
    /\ dur' = None
    /\ trace' = <<>>
    /\ timedout' = FALSE
    /\ rerun' = "no"
    /\ last' = None
    /\ UNCHANGED <<params, cur, disk, files, arg, out>>

\* The exception of get_version, or the kill, ended the program; it is
\* started again on the same database file.
Restart ==
    /\ pc \in {"raised", "interrupted"}
    /\ pc' = "idle"
    /\ table' = Opened(disk)
    /\ params' = NoParams
    /\ cursor' = <<>>
    /\ cur' = None
    /\ trace' = <<>>
    /\ result' = "-"
    /\ timedout' = FALSE
    /\ rerun' = "no"
    /\ last' = None
    /\ arg' = None
    /\ UNCHANGED <<session, nopen, leaving, dur, disk, files, out>>

Next ==
    \/ \E package \in Names, source \in Sources, section \in Sections :
          add_package(package, source, section)
    \/ \E only \in PackageRegexes, section \in SectionRegexes, retry \in Retries :
          process_matching(only, section, retry)
    \/ Fetch
    \/ Enter
    \/ Install1
    \/ GetVersion1
    \/ Install2
    \/ GetVersion2
    \/ Remove
    \/ Exit
    \/ Restart

Spec == Init /\ [][Next]_vars

\* The driver with kills at any point of a run.
NextInterrupt ==
    \/ Next
    \/ Interrupt

SpecInterrupt == Init /\ [][NextInterrupt]_vars

\* ------------------------------------------------ one process_matching run
\* Rows a table can hold when a run begins: a new one, one whose install
\* timed out, one whose removal timed out, one found unaffected.
RunRows ==
    {NewRow(<<1>>, <<1>>),
     [NewRow(<<1>>, <<1>>) EXCEPT !.install_duration = Some(1)],
     [source |-> <<1>>, section |-> <<2>>,
      install_affected |-> Some(1), install_duration |-> Some(1),
      install_version |-> Some("1.0-2"),
      remove_affected |-> None, remove_duration |-> Some(1)],
     [source |-> <<1>>, section |-> <<2>>,
      install_affected |-> Some(0), install_duration |-> Some(1),
      install_version |-> Some("1.0-2"),
      remove_affected |-> None, remove_duration |-> None]}

RunTables == UNION {[S -> RunRows] : S \in SUBSET Names}

\* process_matching has been called and has executed its SELECT.
InitRun ==
    /\ table \in RunTables
    /\ disk = Some(table)
    /\ files = <<>>
    /\ params \in [only : PackageRegexes, section : SectionRegexes,
                   retry : Retries]
    /\ pc = "iter"
    /\ cursor = SelectAll(table)
    /\ cur = None
    /\ session = None
    /\ nopen = 0
    /\ leaving = "-"
    /\ dur = None
    /\ trace = <<>>
    /\ result = "-"
    /\ timedout = FALSE
    /\ last = None
    /\ rerun = "no"
    /\ arg = None
    /\ out = None

NextRun ==
    \/ Fetch
    \/ Enter
    \/ Install1
    \/ GetVersion1
    \/ Install2
    \/ GetVersion2
    \/ Remove
    \/ Exit

\* Every external command returns or times out, and the program is
\* sequential: whatever step is next is taken.
SpecRun == InitRun /\ [][NextRun]_vars /\ WF_vars(NextRun)

\* ------------------------------------------- process_package called alone
\* process_package(package, chroot, timeout) with any name, stored or not.
process_package(package) ==
    /\ pc = "idle"
    /\ pc' = "enter1"
    /\ cur' = Some(package)
    /\ arg' = Some([fn |-> "process_package", package |-> package])
    /\ trace' = <<>>
    /\ result' = "-"
    /\ last' = None
    /\ out' = None
    /\ UNCHANGED <<table, params, cursor, session, nopen, leaving, dur,
                   timedout, rerun, disk, files>>

\* The caller goes on after the call has returned.
Resume ==
    /\ pc = "called"
    /\ pc' = "idle"
    /\ cur' = None
    /\ arg' = None
    /\ trace' = <<>>
    /\ result' = "-"
    /\ timedout' = FALSE
    /\ UNCHANGED <<table, params, cursor, session, nopen, leaving, dur, last,
                   rerun, disk, files, out>>

\* The driver with packages of one section and the default filters, and the
\* calls of process_package.
NextCall ==
    \/ \E package \in Names, source \in Sources :
          add_package(package, source, <<1>>)
    \/ \E retry \in Retries : process_matching(<<>>, <<>>, retry)
    \/ Fetch
    \/ Enter
    \/ Install1
    \/ GetVersion1
    \/ Install2
    \/ GetVersion2
    \/ Remove
    \/ Exit
    \/ Restart
    \/ \E package \in Names : process_package(package)
    \/ Resume

SpecCall == Init /\ [][NextCall]_vars

\* ------------------------------------------------------------------ _main
\* Mutant: only --update fills the table.
NeedsFill_update_only(update, t) == update

\* if args.update or package2affection.is_empty():
NeedsFill(update, t) == update \/ is_empty(t)

\* The caches _main is run against: one version per package.
MainCaches == {c \in Caches : \A i \in DOMAIN c : Len(c[i].versions) = 1}

\* _main up to the call of process_matching: the database file is opened,
\* the table is filled from the APT cache if need be, and process_matching
\* begins with the default --only and --section.
main(update, cache, architecture, retry) ==
    /\ pc = "idle"
    /\ LET opened == Opened(disk)
           filled == IF NeedsFill(update, opened)
                     THEN AddFromCache(opened, cache, architecture, 0).table
                     ELSE opened
       IN  /\ table' = filled
           /\ disk' = IF NeedsFill(update, opened) \/ CreateTables(disk)
                      THEN commit(filled, disk) ELSE disk
           /\ cursor' = SelectAll(filled)
    /\ out' = Some([fn |-> "_main", update |-> update, cache |-> cache,
                    architecture |-> architecture])
    /\ pc' = "iter"
    /\ params' = [only |-> <<>>, section |-> <<>>, retry |-> retry]
    /\ rerun' = "no"
    /\ last' = None
    /\ timedout' = FALSE
    /\ result' = "-"
    /\ UNCHANGED <<cur, session, nopen, leaving, dur, trace, files, arg>>

NextMain ==
    \/ \E update \in BOOLEAN, cache \in MainCaches,
          architecture \in Architectures, retry \in Retries :
          main(update, cache, architecture, retry)
    \/ Fetch
    \/ Enter
    \/ Install1
    \/ GetVersion1
    \/ Install2
    \/ GetVersion2
    \/ Remove
    \/ Exit
    \/ Restart

SpecMain == Init /\ [][NextMain]_vars

\* --------------------------------------------- the methods of the mapping
\* del package2affection; Package2Affection(database_file)
Reopen ==
    /\ pc = "idle"
    /\ table' = Opened(disk)
    /\ disk' = IF CreateTables(disk) THEN commit(<<>>, disk) ELSE disk
    /\ result' = "reopened"
    /\ last' = None
    /\ out' = None
    /\ UNCHANGED <<pc, params, cursor, cur, session, nopen, leaving, dur,
                   trace, timedout, rerun, files, arg>>

\* set_install called on its own.
SetInstall(package, affected, duration, version) ==
    /\ pc = "idle"
    /\ table' = set_install(table, package, affected, duration, version)
    /\ disk' = commit(table', disk)
    /\ result' = "-"
    /\ last' = None
    /\ out' = None
    /\ UNCHANGED <<pc, params, cursor, cur, session, nopen, leaving, dur,
                   trace, timedout, rerun, files, arg>>

\* set_remove called on its own.
SetRemove(package, affected, duration) ==
    /\ pc = "idle"
    /\ table' = set_remove(table, package, affected, duration)
    /\ disk' = commit(table', disk)
    /\ result' = "-"
    /\ last' = None
    /\ out' = None
    /\ UNCHANGED <<pc, params, cursor, cur, session, nopen, leaving, dur,
                   trace, timedout, rerun, files, arg>>

\* add_from_apt_cache: the loop, one commit, the counter returned.
add_from_apt_cache(cache, architecture) ==
    /\ pc = "idle"
    /\ LET r == AddFromCache(table, cache, architecture, 0) IN
        /\ table' = r.table
        /\ out' = Some([fn |-> "add_from_apt_cache", value |-> r.added])
    /\ disk' = commit(table', disk)
    /\ result' = "-"
    /\ last' = None
    /\ UNCHANGED <<pc, params, cursor, cur, session, nopen, leaving, dur,
                   trace, timedout, rerun, files, arg>>

NextMapping ==
    \/ \E package \in Names, source \in Sources, section \in Sections :
          add_package(package, source, section)
    \/ \E cache \in Caches, architecture \in Architectures :
          add_from_apt_cache(cache, architecture)
    \/ \E package \in Names, affected \in Option(BOOLEAN),
          version \in Option(Versions) :
          SetInstall(package, affected, MaxDur, version)
    \/ \E package \in Names, affected \in Option(BOOLEAN) :
          SetRemove(package, affected, MaxDur)
    \/ Reopen

SpecMapping == Init /\ [][NextMapping]_vars

\* ------------------------------------------ add_from_apt_cache taken alone
\* Rows a table can hold before the call: one as add_package leaves it, one
\* with every result set.
StoredRows ==
    {NewRow(<<1>>, <<1>>),
     [source |-> <<1>>, section |-> <<2>>,
      install_affected |-> Some(1), install_duration |-> Some(MaxDur),
      install_version |-> Some("1.0-2"),
      remove_affected |-> Some(0), remove_duration |-> Some(MaxDur)]}

PriorTables == UNION {[S -> StoredRows] : S \in SUBSET Names}

InitCache ==
    /\ table \in PriorTables
    /\ disk = Some(table)
    /\ files = <<>>
    /\ Idle
    /\ arg \in {Some(a) : a \in [cache : Caches, architecture : Architectures]}
    /\ out = None

CallAddFromAptCache ==
    /\ pc = "idle"
    /\ out = None
    /\ LET r == AddFromCache(table, arg[1].cache, arg[1].architecture, 0) IN
        /\ table' = r.table
        /\ out' = Some([fn |-> "add_from_apt_cache", value |-> r.added])
    /\ disk' = commit(table', disk)
    /\ UNCHANGED <<pc, params, cursor, cur, session, nopen, leaving, dur,
                   trace, result, timedout, last, rerun, files, arg>>

NextCache ==
    \/ CallAddFromAptCache

SpecCache == InitCache /\ [][NextCache]_vars

\* ------------------------------------------------------------ save_debdiff
Filenames == {"debdiff", "other.debdiff"}
Contents == {"foobar\n", "changed\n"}

\* A file: its content and what os.stat tells of it, which every write changes.
File(content, stat) == [content |-> content, stat |-> stat]

\* The stat of the file written last.
Clock(fs) ==
    IF DOMAIN fs = {} THEN 0
    ELSE CHOOSE m \in {fs[f].stat : f \in DOMAIN fs} :
             \A f \in DOMAIN fs : fs[f].stat <= m

Written(fs, filename, content) ==
    [f \in DOMAIN fs \cup {filename} |->
        IF f = filename THEN File(content, Clock(fs) + 1) ELSE fs[f]]

\* Mutant: an existing file with the same content is written again.
SaveDebdiff_rewrites(fs, filename, content, overwrite) ==
    IF filename \notin DOMAIN fs \/ fs[filename].content = content \/ overwrite
    THEN [files |-> Written(fs, filename, content), exit |-> None]
    ELSE [files |-> fs, exit |-> Some(1)]

\* The directory after the call, and the exit status if the call exits.
SaveDebdiff(fs, filename, content, overwrite) ==
    IF filename \notin DOMAIN fs
    THEN [files |-> Written(fs, filename, content), exit |-> None]
    ELSE IF fs[filename].content = content
    THEN [files |-> fs, exit |-> None]
    ELSE IF overwrite
    THEN [files |-> Written(fs, filename, content), exit |-> None]
    ELSE [files |-> fs, exit |-> Some(1)]

save_debdiff(filename, content, overwrite) ==
    /\ pc = "idle"
    /\ LET r == SaveDebdiff(files, filename, content, overwrite) IN
        /\ Clock(r.files) <= MaxWrites
        /\ files' = r.files
        /\ out' = Some([fn |-> "save_debdiff", exit |-> r.exit])
    /\ arg' = Some([filename |-> filename, content |-> content,
                    overwrite |-> overwrite])
    /\ UNCHANGED <<table, pc, params, cursor, cur, session, nopen, leaving, dur,
                   trace, result, timedout, last, rerun, disk>>

NextDebdiff ==
    \/ \E filename \in Filenames, content \in Contents, overwrite \in BOOLEAN :
          save_debdiff(filename, content, overwrite)

SpecDebdiff == Init /\ [][NextDebdiff]_vars

\* --------------------------------------------------- schroot-wrapper main
ExitStatuses == {0, 37, 42}

\* What the command line asks for: --enable-proposed, --ppa, --packages.
Options == [proposed : BOOLEAN, ppa : BOOLEAN, packages : BOOLEAN]

\* One subprocess.run of the wrapper: `user` is root for the setup commands.
Run(op, s, what, returncode) ==
    [op |-> op, s |-> s, what |-> what, returncode |-> returncode]

\* The setup commands the options call for, run as root in session s.
Setup(o, s) ==
    (IF o.proposed THEN <<Run("root", s, "ubuntu-proposed.sources", 0)>> ELSE <<>>) \o
    (IF o.proposed \/ o.ppa \/ o.packages
     THEN <<Run("root", s, "apt-get update", 0)>> ELSE <<>>) \o
    (IF o.ppa THEN <<Run("root", s, "apt-get install software-properties-common", 0),
                     Run("root", s, "add-apt-repository", 0)>> ELSE <<>>) \o
    (IF o.packages THEN <<Run("root", s, "apt-get install", 0)>> ELSE <<>>)

\* Mutant: main returns 0 after the session has ended.
Returns_zero(returncode) == 0

\* What main returns for the exit status of the user's command.
Returns(returncode) == returncode

InitWrapper ==
    /\ table = <<>>
    /\ disk = Some(<<>>)
    /\ files = <<>>
    /\ pc = "main"
    /\ params = NoParams
    /\ cursor = <<>>
    /\ cur = None
    /\ session = None
    /\ nopen = 0
    /\ leaving = "-"
    /\ dur = None
    /\ trace = <<>>
    /\ result = "-"
    /\ timedout = FALSE
    /\ last = None
    /\ rerun = "no"
    /\ arg \in {Some(o) : o \in Options}
    /\ out = None

\* with SchrootSession(chroot) as session: schroot -c chroot -b
WrapperBegin ==
    /\ pc = "main"
    /\ session' = Some(Begun(trace) + 1)
    /\ nopen' = nopen + 1
    /\ trace' = Append(trace, Run("begin", Begun(trace) + 1, "schroot -b", 0))
    /\ pc' = "directory"
    /\ UNCHANGED <<table, params, cursor, cur, leaving, dur, result, timedout,
                   last, rerun, disk, files, arg, out>>

\* test -d of the working directory; when it is missing, the home directory
\* of the user is looked up, tested and, when missing too, created.
WrapperDirectory ==
    /\ pc = "directory"
    /\ \E exists \in BOOLEAN, home \in BOOLEAN :
          trace' = trace \o
              <<Run("root", session[1], "test -d directory", IF exists THEN 0 ELSE 1)>> \o
              (IF exists THEN <<>>
               ELSE <<Run("root", session[1], "realpath", 0),
                      Run("root", session[1], "test -d home", IF home THEN 0 ELSE 1)>> \o
                    (IF home THEN <<>>
                     ELSE <<Run("root", session[1], "install -d", 0)>>))
    /\ pc' = "setup"
    /\ UNCHANGED <<table, params, cursor, cur, session, nopen, leaving, dur,
                   result, timedout, last, rerun, disk, files, arg, out>>

WrapperSetup ==
    /\ pc = "setup"
    /\ trace' = trace \o Setup(arg[1], session[1])
    /\ pc' = "command"
    /\ UNCHANGED <<table, params, cursor, cur, session, nopen, leaving, dur,
                   result, timedout, last, rerun, disk, files, arg, out>>

\* The user's command (a shell when none is given), with any exit status.
WrapperCommand ==
    /\ pc = "command"
    /\ \E returncode \in ExitStatuses :
          trace' = Append(trace, Run("user", session[1], "schroot -r", returncode))
    /\ pc' = "end"
    /\ UNCHANGED <<table, params, cursor, cur, session, nopen, leaving, dur,
                   result, timedout, last, rerun, disk, files, arg, out>>

\* __exit__: schroot -e; then main returns.
WrapperEnd ==
    /\ pc = "end"
    /\ session # None
    /\ session' = None
    /\ nopen' = nopen - 1
    /\ trace' = Append(trace, Run("end", session[1], "schroot -e", 0))
    /\ out' = Some([fn |-> "main",
                    value |-> Returns(trace[Len(trace)].returncode)])
    /\ pc' = "returned"
    /\ UNCHANGED <<table, params, cursor, cur, leaving, dur, result, timedout,
                   last, rerun, disk, files, arg>>

NextWrapper ==
    \/ WrapperBegin
    \/ WrapperDirectory
    \/ WrapperSetup
    \/ WrapperCommand
    \/ WrapperEnd

SpecWrapper == InitWrapper /\ [][NextWrapper]_vars

\* ------------------------------------------- the functions taken alone
\* Every row the table's columns can hold, every retry limit around the
\* durations, every outcome of a probe.
Flags == Option({0, 1})
Columns ==
    [source : Sources, section : {<<1>>},
     install_affected : Flags, install_duration : Option(0..MaxDur),
     install_version : Option(Versions),
     remove_affected : Flags, remove_duration : Option(0..MaxDur)]

InitPackage ==
    /\ table = <<>>
    /\ disk = Some(<<>>)
    /\ files = <<>>
    /\ Idle
    /\ arg \in {Some(a) : a \in [row : Columns, retry_limit : 0..MaxDur, o : Outcomes]}
    /\ out = None

Returned(fn, value) == Some([fn |-> fn, value |-> value])

CallNeedsProcessing ==
    /\ out = None
    /\ out' = Returned("needs_proccessing",
                       needs_proccessing(from_sql(<<1>>, arg[1].row)))
    /\ UNCHANGED <<table, pc, params, cursor, cur, session, nopen, leaving, dur,
                   trace, result, timedout, last, rerun, disk, files, arg>>

CallNeedsRetry ==
    /\ out = None
    /\ out' = Returned("needs_retry",
                       needs_retry(from_sql(<<1>>, arg[1].row), arg[1].retry_limit))
    /\ UNCHANGED <<table, pc, params, cursor, cur, session, nopen, leaving, dur,
                   trace, result, timedout, last, rerun, disk, files, arg>>

CallInstall ==
    /\ out = None
    /\ out' = Returned("install", install(arg[1].o))
    /\ UNCHANGED <<table, pc, params, cursor, cur, session, nopen, leaving, dur,
                   trace, result, timedout, last, rerun, disk, files, arg>>

CallRemove ==
    /\ out = None
    /\ out' = Returned("remove", remove(arg[1].o))
    /\ UNCHANGED <<table, pc, params, cursor, cur, session, nopen, leaving, dur,
                   trace, result, timedout, last, rerun, disk, files, arg>>

NextPackage ==
    \/ CallNeedsProcessing
    \/ CallNeedsRetry
    \/ CallInstall
    \/ CallRemove

SpecPackage == InitPackage /\ [][NextPackage]_vars

Called(fn) == out # None /\ out[1].fn = fn

\* ----------------------------------------------------------------- claims
\* C1: needs_proccessing() is true exactly when install_duration is unset, or
\* install_affected is True and remove_duration is unset; it is false for
\* every other combination of the five result fields.
C1_NeedsProcessing ==
    Called("needs_proccessing") =>
        (out[1].value <=>
            \/ arg[1].row.install_duration = None
            \/ /\ arg[1].row.install_affected = Some(1)
               /\ arg[1].row.remove_duration = None)

\* A measured, affected install without a removal result needs processing.
C1_Witness ==
    /\ Called("needs_proccessing")
    /\ out[1].value
    /\ arg[1].row.install_duration # None
    /\ arg[1].row.install_affected = Some(1)
    /\ arg[1].row.remove_affected = Some(0)

\* C2: needs_retry(limit) is true exactly when, for the install leg or the
\* removal leg, the affected flag is unset and the duration is set and below
\* the limit; a duration that is not below the limit never makes the record
\* eligible.
C2_RetryBelowLimit ==
    Called("needs_retry") =>
        (out[1].value <=>
            \/ /\ arg[1].row.install_affected = None
               /\ arg[1].row.install_duration # None
               /\ arg[1].row.install_duration[1] < arg[1].retry_limit
            \/ /\ arg[1].row.remove_affected = None
               /\ arg[1].row.remove_duration # None
               /\ arg[1].row.remove_duration[1] < arg[1].retry_limit)

\* C7: install and remove classify a finished probe alike: True when the
\* output has the marker, whatever the exit status; else None when the exit
\* status is not 0; else False.
C7_Classify ==
    ((Called("install") \/ Called("remove")) /\ ~arg[1].o.timeout) =>
        out[1].value = IF arg[1].o.marker THEN Some(TRUE)
                       ELSE IF arg[1].o.rc # 0 THEN None
                       ELSE Some(FALSE)

\* A removal that failed with the marker in its output is affected.
C7_Witness ==
    /\ Called("remove")
    /\ ~arg[1].o.timeout
    /\ arg[1].o.marker
    /\ arg[1].o.rc # 0
    /\ out[1].value = Some(TRUE)

\* ------------------------------------------------- claims on the driver
\* The row of the package process_package was called with.
Row == table[cur[1]]

Probe(e) == e.op \in {"install", "remove"}
IsoInstall(e) == e.op = "install" /\ e.enc = "ISO-8859-1"
Utf8Install(e) == e.op = "install" /\ e.enc = "utf-8"

\* process_matching was called and has not fetched a row yet.
Fresh == pc = "iter" /\ cur = None

\* What the regular expression is to match: the literal somewhere in the string.
Contains(string, literal) ==
    \E i \in 1..(Len(string) + 1), j \in 0..Len(string) :
        SubSeq(string, i, j) = literal

\* Ascending order of strings: equal up to a place where a ends or is smaller.
Ascending(a, b) ==
    \E k \in 1..Len(b) :
        /\ \A i \in 1..(k - 1) : i <= Len(a) /\ a[i] = b[i]
        /\ (Len(a) = k - 1 \/ (Len(a) >= k /\ a[k] < b[k]))

Matching(n) ==
    Contains(n, params.only) /\ Contains(table[n].section, params.section)

Yielded(ys) == {ys[i] : i \in DOMAIN ys}

\* C3, as claimed: after a process_matching that ran to completion with no
\* probe timing out, the same call with retry 0 gets no package from
\* iter_unprocessed.
C3_RerunGetsNothing ==
    (Fresh /\ rerun = "after clean run") => iter_unprocessed(cursor, params) = <<>>

\* C3, corrected: the repeated call gets exactly the matching packages
\* recorded as affected by install and without a removal duration (their
\* UTF-8 install was inconclusive); when there is none it returns without
\* beginning a session or changing a row.
C3_RerunGetsAffectedWithoutRemoval ==
    /\ [](Fresh /\ rerun = "after clean run" =>
            Yielded(iter_unprocessed(cursor, params)) =
                {n \in DOMAIN table :
                    /\ Matching(n)
                    /\ table[n].install_affected = Some(1)
                    /\ table[n].remove_duration = None})
    /\ [][(/\ Fresh
           /\ rerun = "after clean run"
           /\ iter_unprocessed(cursor, params) = <<>>)
          => (pc' = "idle" /\ table' = table /\ nopen' = nopen /\ trace' = <<>>)]_vars

\* A repeated call that finds processed rows and nothing to do.
C3_Witness ==
    /\ Fresh
    /\ rerun = "after clean run"
    /\ iter_unprocessed(cursor, params) = <<>>
    /\ \E n \in DOMAIN table : Matching(n) /\ table[n].install_duration # None

\* C4: at most one chroot session is open at any moment: the first session
\* of a package is ended before its second is begun, and no session is open
\* between two packages.
C4_OneSession ==
    /\ nopen <= 1
    /\ pc \in {"idle", "iter", "enter1", "enter2", "raised"} => nopen = 0
    /\ \A i \in DOMAIN trace :
          (trace[i].op = "begin" /\ trace[i].s = 2) =>
              \E j \in 1..(i - 1) : trace[j].op = "end" /\ trace[j].s = 1

\* The session of the UTF-8 install is open, alone.
C4_Witness ==
    /\ pc = "install2"
    /\ session = Some(<<2>>)
    /\ nopen = 1

\* C5: when process_package returns or raises, every session it began has
\* been ended exactly once, after it was begun.
C5_EverySessionEnded ==
    result \in {"returned", "raised"} =>
        /\ nopen = 0
        /\ Begun(trace) >= 1
        /\ \A k \in 1..Begun(trace) :
              /\ Cardinality({i \in DOMAIN trace :
                                 trace[i].op = "end" /\ trace[i].s = k}) = 1
              /\ \E i, j \in DOMAIN trace :
                    /\ i < j
                    /\ trace[i].op = "begin" /\ trace[i].s = k
                    /\ trace[j].op = "end" /\ trace[j].s = k

\* get_version raised in the second session, and both sessions are ended.
C5_Witness ==
    /\ result = "raised"
    /\ Begun(trace) = 2
    /\ nopen = 0

\* C6: the ISO-8859-1 install is the first probe, in the first session; the
\* UTF-8 install runs only after the ISO-8859-1 install returned True; the
\* removal runs only after the UTF-8 install returned True or False, in the
\* session of that install and never in the first session.
C6_ProbeOrder ==
    /\ Len(trace) >= 2 => (IsoInstall(trace[2]) /\ trace[2].s = 1)
    /\ \A i \in DOMAIN trace :
          /\ (Probe(trace[i]) /\ \A j \in 1..(i - 1) : ~Probe(trace[j]))
                => (IsoInstall(trace[i]) /\ trace[i].s = 1)
          /\ Utf8Install(trace[i]) =>
                \E j \in 1..(i - 1) :
                    IsoInstall(trace[j]) /\ trace[j].res = Some(TRUE)
          /\ trace[i].op = "remove" =>
                /\ trace[i].s # 1
                /\ \E j \in 1..(i - 1) :
                      /\ Utf8Install(trace[j])
                      /\ trace[j].res # None
                      /\ trace[j].s = trace[i].s

\* The removal probe has run after both installs.
C6_Witness ==
    /\ pc = "exit2"
    /\ \E i \in DOMAIN trace : trace[i].op = "remove"

\* What C8 says of a probe that timed out; utf8_flag is the install_affected
\* recorded when it was the UTF-8 install.
TimeoutInconclusive(utf8_flag) ==
    \A i \in DOMAIN trace :
        trace[i].timeout =>
            /\ trace[i].res = None
            /\ IsoInstall(trace[i]) =>
                  /\ Row.install_affected = None
                  /\ Row.install_duration = trace[i].d
                  /\ Row.install_version = None
            /\ Utf8Install(trace[i]) =>
                  /\ Row.install_affected = utf8_flag
                  /\ Row.install_duration = trace[i].d
                  /\ Row.install_version = None
            /\ trace[i].op = "remove" =>
                  /\ Row.remove_affected = None
                  /\ Row.remove_duration = trace[i].d
            /\ pc # "raised" /\ result # "raised"
            /\ i = Len(trace) =>
                  (pc \in {"exit1", "exit2"} /\ leaving \in {"return", "next"})
            /\ i < Len(trace) =>
                  /\ Len(trace) = i + 1
                  /\ trace[i + 1].op = "end" /\ trace[i + 1].s = trace[i].s
                  /\ nopen = 0
                  /\ result = "returned"
                  /\ pc = "iter"

\* C8, as claimed: after a probe that timed out the unknown flag is recorded
\* with the elapsed duration, the session is ended, process_package returns
\* and process_matching is at its loop again.
C8_TimeoutRecordsUnknown == TimeoutInconclusive(None)

\* C8, corrected: the unknown flag is recorded for the ISO-8859-1 install and
\* for the removal; a UTF-8 install that timed out is recorded as
\* install_affected = True with the elapsed duration and no version.
C8_TimeoutUtf8RecordsAffected == TimeoutInconclusive(Some(1))

\* The UTF-8 install timed out, process_package returned, and the loop has
\* another package to go on with.
C8_Witness ==
    /\ pc = "iter"
    /\ result = "returned"
    /\ \E i \in DOMAIN trace : Utf8Install(trace[i]) /\ trace[i].timeout
    /\ iter_unprocessed(cursor, params) # <<>>

\* C9: iter_unprocessed yields exactly the stored packages that need
\* processing or a retry and whose name and section are matched, each once,
\* in ascending (section, package) order; an inconclusive install of
\* duration d is yielded when d <= retry and not when retry is 0 and d > 0.
C9_IterUnprocessed ==
    Fresh =>
        LET ys == iter_unprocessed(cursor, params)
            pkg(n) == from_sql(n, table[n])
        IN  /\ Yielded(ys) =
                  {n \in DOMAIN table :
                      /\ needs_proccessing(pkg(n)) \/ needs_retry(pkg(n), params.retry)
                      /\ Matching(n)}
            /\ \A i, j \in DOMAIN ys :
                  i < j =>
                      \/ Ascending(table[ys[i]].section, table[ys[j]].section)
                      \/ /\ table[ys[i]].section = table[ys[j]].section
                         /\ Ascending(ys[i], ys[j])
            /\ \A n \in DOMAIN table :
                  (/\ table[n].install_affected = None
                   /\ table[n].install_duration # None) =>
                      /\ (table[n].install_duration[1] <= params.retry /\ Matching(n))
                            => n \in Yielded(ys)
                      /\ (params.retry = 0 /\ table[n].install_duration[1] > 0)
                            => n \notin Yielded(ys)

\* Two packages are yielded, the greater name first because its section is
\* the smaller, and the second is a retry of an inconclusive install.
C9_Witness ==
    /\ Fresh
    /\ iter_unprocessed(cursor, params) = << <<1, 2>>, <<1>> >>
    /\ table[<<1>>].install_affected = None
    /\ table[<<1>>].install_duration # None

\* C10: when process_package returns after an ISO-8859-1 install that came
\* out False, the row holds install_affected = False, the duration measured
\* around that install and the version get_version returned; one session
\* was begun, no other probe ran, and the lookup of the package is False.
C10_Unaffected ==
    (/\ result = "returned"
     /\ Len(trace) >= 2
     /\ IsoInstall(trace[2])
     /\ trace[2].res = Some(FALSE)) =>
        /\ Row.install_affected = Some(0)
        /\ Row.install_duration = trace[2].d
        /\ \E i \in DOMAIN trace :
              /\ trace[i].op = "get_version"
              /\ trace[i].v # None
              /\ Row.install_version = trace[i].v
        /\ Begun(trace) = 1
        /\ \A i \in DOMAIN trace : Probe(trace[i]) => i = 2
        /\ getitem(table, cur[1]) = Some(FALSE)

\* A package recorded as affected is installed again and found unaffected.
C10_Witness ==
    /\ result = "returned"
    /\ Len(trace) >= 2
    /\ trace[2].res = Some(FALSE)
    /\ Row.install_affected = Some(0)
    /\ Row.remove_duration # None

\* ------------------------------------------------------------------- C11
\* The positions of the driver at which the next command is a probe.
BeforeProbe == pc \in {"install1", "install2", "remove"}

\* The row of the killed process_package shows a first processing that did
\* not complete: no result at all, or an affected install and no removal.
Incomplete ==
    \/ Row.install_duration = None
    \/ /\ Row.install_affected = Some(1)
       /\ Row.remove_affected = None
       /\ Row.remove_duration = None

\* C11: the table is a checkpoint log.  Whenever a probe is about to start,
\* the database file holds every result set_install and set_remove have
\* written; a kill at any point of a run leaves every stored row as it was,
\* for the restarted program to read; and the package whose first processing
\* the kill cut short (nothing written, or an affected install written and
\* no removal result) is yielded again by iter_unprocessed with retry 0.
C11_CheckpointLog ==
    /\ [](BeforeProbe => disk = Some(table))
    /\ [][(pc' = "interrupted" \/ pc = "interrupted") => table' = table]_vars
    /\ []((pc = "interrupted" /\ cur # None /\ Incomplete) =>
              cur[1] \in Yielded(iter_unprocessed(SelectAll(table),
                                     [params EXCEPT !.retry = 0])))

\* The kill came between the set_install of an affected install and the
\* removal probe, while another package had been processed to its end.
C11_Witness ==
    /\ pc = "interrupted"
    /\ cur # None
    /\ Row.install_affected = Some(1)
    /\ Row.install_version # None
    /\ Row.remove_duration = None
    /\ \E n \in DOMAIN table \ {cur[1]} : table[n].install_affected = Some(0)

\* ------------------------------------------------------------------- C12
\* What dict(package2affection) is: every stored name with its lookup.
Mapping(t) == [n \in DOMAIN t |-> getitem(t, n)]

\* C12: deleting the object and opening a new one on the same database file
\* neither recreates nor clears the table: every row that add_package,
\* set_install and the other methods committed is there as it was, and the
\* reopened mapping equals the mapping before the closing.
C12_ReopenKeeps ==
    [][Reopen => (table' = table /\ Mapping(table') = Mapping(table))]_vars

\* A reopened database with a row that has a result and a row that has none.
C12_Witness ==
    /\ result = "reopened"
    /\ \E n, m \in DOMAIN table :
          /\ table[n].install_affected = Some(0)
          /\ table[n].install_version # None
          /\ table[m].install_affected = None

\* ------------------------------------------------------------------- C13
\* C13: after any sequence of add_package, add_from_apt_cache, set_install
\* and set_remove, iteration yields every stored name once, in ascending
\* order of the names; len is the number of stored names; a lookup gives the
\* current install_affected (None, False or True) of a stored name and a
\* KeyError for any other; is_empty() is true exactly when len is 0.
C13_MappingProtocol ==
    LET it == iter(table) IN
    /\ Yielded(it) = DOMAIN table
    /\ \A i, j \in DOMAIN it : i < j => Ascending(it[i], it[j])
    /\ len(table) = Len(it)
    /\ \A n \in Names :
          IF n \in DOMAIN table
          THEN getitem(table, n) =
                   (IF table[n].install_affected = None THEN None
                    ELSE IF table[n].install_affected = Some(1) THEN Some(TRUE)
                    ELSE Some(FALSE))
          ELSE getitem(table, n) = "KeyError"
    /\ is_empty(table) <=> (len(table) = 0)

\* Two stored names, one looked up as None and one as True, after a
\* set_remove.
C13_Witness ==
    /\ iter(table) = << <<1>>, <<1, 2>> >>
    /\ getitem(table, <<1>>) = None
    /\ getitem(table, <<1, 2>>) = Some(TRUE)
    /\ table[<<1, 2>>].remove_duration # None

\* ------------------------------------------------------------------- C14
\* A package of the cache is one add_from_apt_cache is to store.
Ubuntu(package, architecture) ==
    /\ package.architecture = architecture
    /\ \E i \in DOMAIN package.versions :
          \E j \in DOMAIN package.versions[i].origins :
              package.versions[i].origins[j].origin = "Ubuntu"

Unset(row) ==
    /\ row.install_affected = None
    /\ row.install_duration = None
    /\ row.install_version = None
    /\ row.remove_affected = None
    /\ row.remove_duration = None

\* C14: add_from_apt_cache(architecture) stores a package of the cache
\* exactly when the package's architecture is the argument and one of its
\* versions has an origin named "Ubuntu"; a row it adds has all five result
\* fields unset.
C14_StoresUbuntuPackages ==
    [][CallAddFromAptCache =>
          LET cache == arg[1].cache IN
          /\ \A i \in DOMAIN cache :
                (cache[i].name \in DOMAIN table') <=>
                    \/ cache[i].name \in DOMAIN table
                    \/ Ubuntu(cache[i], arg[1].architecture)
          /\ \A n \in DOMAIN table' :
                n \in DOMAIN table \/ \E i \in DOMAIN cache : cache[i].name = n
          /\ \A n \in DOMAIN table' \ DOMAIN table : Unset(table'[n])
          /\ \A n \in DOMAIN table : table'[n] = table[n]]_vars

\* One call stored a package whose Ubuntu origin comes with its second
\* version and left a stored row with its results alone.
C14_Witness ==
    /\ out = Some([fn |-> "add_from_apt_cache", value |-> 1])
    /\ Len(arg[1].cache) = 2
    /\ arg[1].cache[2].architecture = "i386"
    /\ DOMAIN table = Names
    /\ table[<<1>>].section = <<2>>
    /\ Unset(table[<<1>>])
    /\ table[<<1, 2>>].install_affected = Some(1)
    /\ table[<<1, 2>>].section = <<2>>

\* ------------------------------------------------------------------- C15
\* C15: the value add_from_apt_cache returns and logs as "Added %i packages"
\* is the number of packages the call added, that is, the increase of
\* len(mapping), whatever the table held before.
C15_ReturnsAdded ==
    [][CallAddFromAptCache => out'[1].value = len(table') - len(table)]_vars

\* ------------------------------------------------------------------- C16
\* C16: the package name is a primary key.  add_package with a stored name
\* fails with an error and leaves the table, and so the row's source,
\* section and results, unchanged; every stored name is stored once.
C16_PrimaryKey ==
    /\ [][\A package \in Names, source \in Sources, section \in Sections :
            (add_package(package, source, section) /\ package \in DOMAIN table) =>
                (result' = "IntegrityError" /\ table' = table /\ disk' = disk)]_vars
    /\ [](Len(iter(table)) = Cardinality(Yielded(iter(table))))

\* add_package failed on a name whose row has a result and another section.
C16_Witness ==
    /\ result = "IntegrityError"
    /\ \E n \in DOMAIN table :
          /\ table[n].install_affected # None
          /\ table[n].section = <<2>>

\* ------------------------------------------------------------------- C17
\* C17: _main fills the table from the APT cache exactly when --update is
\* given or the database is empty, and in every case runs process_matching
\* afterwards, on the table as it then is; with a non-empty database and no
\* --update the set of stored packages is the same before and after the run.
C17_FillWhenUpdateOrEmpty ==
    /\ [][(pc = "idle" /\ pc' = "iter") =>
            LET m == out'[1] IN
            /\ IF m.update \/ len(table) = 0
               THEN /\ \A i \in DOMAIN m.cache :
                         Ubuntu(m.cache[i], m.architecture) =>
                             m.cache[i].name \in DOMAIN table'
                    /\ \A n \in DOMAIN table : table'[n] = table[n]
               ELSE table' = table
            /\ cursor' = SelectAll(table')]_vars
    /\ [][pc # "idle" => DOMAIN table' = DOMAIN table]_vars

\* A run without --update on an empty database has stored the two Ubuntu
\* packages of the cache and has processed one of them.
C17_Witness ==
    /\ pc = "iter"
    /\ result = "returned"
    /\ DOMAIN table = Names
    /\ \E n \in Names : table[n].install_affected = Some(0)

\* ------------------------------------------------------------------- C20
\* C20: the install_affected that process_package records is the verdict of
\* the ISO-8859-1 install alone: when that install returned True and
\* process_package returns, the row holds install_affected = True whatever
\* the UTF-8 install returned (None, False or True), and the install_duration
\* of the row is the one measured around the UTF-8 install.
C20_IsoVerdictUtf8Duration ==
    (/\ result = "returned"
     /\ \E i \in DOMAIN trace : IsoInstall(trace[i]) /\ trace[i].res = Some(TRUE)) =>
        /\ Row.install_affected = Some(1)
        /\ getitem(table, cur[1]) = Some(TRUE)
        /\ \E j \in DOMAIN trace :
              /\ Utf8Install(trace[j])
              /\ \A i \in DOMAIN trace : IsoInstall(trace[i]) => i < j
              /\ Row.install_duration = trace[j].d

\* The ISO-8859-1 install failed on the encoding, the UTF-8 install went
\* through cleanly, and the removal was probed.
C20_Witness ==
    /\ result = "returned"
    /\ \E i, j \in DOMAIN trace :
          /\ IsoInstall(trace[i]) /\ trace[i].res = Some(TRUE)
          /\ Utf8Install(trace[j]) /\ trace[j].res = Some(FALSE)
    /\ Row.install_affected = Some(1)
    /\ Row.install_version # None
    /\ Row.remove_duration # None

\* The same, and the two installs took different times: the row has the
\* time of the UTF-8 install.
C20_DurationsDiffer ==
    /\ C20_Witness
    /\ \E i, j \in DOMAIN trace :
          /\ IsoInstall(trace[i])
          /\ Utf8Install(trace[j])
          /\ trace[i].d # trace[j].d
          /\ Row.install_duration = trace[j].d

\* ------------------------------------------------------------------- C18
\* C18: over any sequence of calls, save_debdiff(filename, content,
\* overwrite) writes the content when the file is missing; changes nothing
\* (same listing, same stat) when the file has that content; exits with
\* status 1 and leaves the file as it is when the content differs and
\* overwrite is false; replaces the content when it differs and overwrite
\* is true.  No other file is touched.
C18_SaveDebdiff ==
    [][\A filename \in Filenames, content \in Contents, overwrite \in BOOLEAN :
          save_debdiff(filename, content, overwrite) =>
              /\ \A f \in DOMAIN files \ {filename} :
                    f \in DOMAIN files' /\ files'[f] = files[f]
              /\ DOMAIN files' = DOMAIN files \cup {filename}
              /\ IF filename \notin DOMAIN files
                 THEN /\ files'[filename].content = content
                      /\ out'[1].exit = None
                 ELSE IF files[filename].content = content
                 THEN /\ files' = files
                      /\ out'[1].exit = None
                 ELSE IF ~overwrite
                 THEN /\ files' = files
                      /\ out'[1].exit = Some(1)
                 ELSE /\ files'[filename].content = content
                      /\ files'[filename].stat # files[filename].stat
                      /\ out'[1].exit = None]_vars

\* The file was written, a call with other content and no overwrite exited
\* with 1 and left it alone.
C18_Witness ==
    /\ out = Some([fn |-> "save_debdiff", exit |-> Some(1)])
    /\ arg = Some([filename |-> "debdiff", content |-> "changed\n",
                   overwrite |-> FALSE])
    /\ "debdiff" \in DOMAIN files
    /\ files["debdiff"].content = "foobar\n"
    /\ Clock(files) = MaxWrites

\* ------------------------------------------------------------------- C19
Ops(op) == {i \in DOMAIN trace : trace[i].op = op}

\* C19: schroot-wrapper main begins one session and no second one, runs the
\* setup commands and the user's command in that session while it is open,
\* ends it exactly once whatever the exit status of the user's command, and
\* returns that exit status.
C19_OneSessionExitStatus ==
    /\ nopen <= 1
    /\ Cardinality(Ops("begin")) <= 1
    /\ Cardinality(Ops("end")) <= 1
    /\ \A i \in Ops("root") \cup Ops("user") :
          /\ \E b \in Ops("begin") : b < i /\ trace[i].s = trace[b].s
          /\ \A e \in Ops("end") : i < e
    /\ \A i \in Ops("root"), u \in Ops("user") : i < u
    /\ pc = "returned" =>
          /\ nopen = 0
          /\ Cardinality(Ops("begin")) = 1
          /\ Cardinality(Ops("end")) = 1
          /\ \E u \in Ops("user") :
                /\ Ops("user") = {u}
                /\ out = Some([fn |-> "main", value |-> trace[u].returncode])

\* The home directory was created, a PPA was added, the user's command
\* exited with 37 and main has returned.
C19_Witness ==
    /\ pc = "returned"
    /\ out = Some([fn |-> "main", value |-> 37])
    /\ \E i \in Ops("root") : trace[i].what = "install -d"
    /\ \E i \in Ops("root") : trace[i].what = "add-apt-repository"
    /\ trace[Len(trace)].op = "end"

\* ------------------------------------------------------------------- C21
\* The verdict of the ISO-8859-1 install of the current/last process_package.
IsoVerdict(v) ==
    \E i \in DOMAIN trace : IsoInstall(trace[i]) /\ trace[i].res = v

\* C21: when the ISO-8859-1 install is inconclusive (a timeout, or a
\* non-zero exit without the marker), process_package records
\* install_affected unset, the elapsed duration and install_version unset,
\* leaves remove_affected and remove_duration as they were, opens no second
\* session and runs neither get_version nor a removal probe.
C21_InconclusiveIsoInstall ==
    /\ []((result = "returned" /\ IsoVerdict(None)) =>
              /\ Row.install_affected = None
              /\ Row.install_duration = trace[2].d
              /\ Row.install_version = None
              /\ Begun(trace) = 1
              /\ \A i \in DOMAIN trace :
                    trace[i].op \in {"begin", "end"} \/ IsoInstall(trace[i]))
    /\ [][(pc = "install1" /\ pc' = "exit1" /\ leaving' = "return") =>
              /\ table'[cur[1]].remove_affected = table[cur[1]].remove_affected
              /\ table'[cur[1]].remove_duration = table[cur[1]].remove_duration
              /\ table'[cur[1]].install_affected = None
              /\ table'[cur[1]].install_version = None]_vars

\* A retried package that had a version and an inconclusive removal: the
\* ISO-8859-1 install timed out, the version is gone, the removal result
\* is still there.
C21_Witness ==
    /\ result = "returned"
    /\ Len(trace) = 3
    /\ IsoInstall(trace[2]) /\ trace[2].timeout
    /\ Row.install_affected = None
    /\ Row.install_version = None
    /\ Row.remove_duration # None

\* ------------------------------------------------------------------- C22
\* C22: for a package whose remove_duration was unset before the call,
\* process_package returns with needs_proccessing() still true exactly when
\* the ISO-8859-1 install was affected and the UTF-8 install returned None;
\* after a removal probe needs_proccessing() is false whatever the row held.
\* (remove_duration is written by the removal probe alone, so without one
\* the row still shows what it was before the call.)
C22_StillNeedsProcessing ==
    result = "returned" =>
        LET removed == \E i \in DOMAIN trace : trace[i].op = "remove"
            utf8none == \E j \in DOMAIN trace :
                            Utf8Install(trace[j]) /\ trace[j].res = None
            package == from_sql(cur[1], Row)
        IN  /\ removed => ~needs_proccessing(package)
            /\ (~removed /\ Row.remove_duration = None) =>
                   (needs_proccessing(package) <=> (IsoVerdict(Some(TRUE)) /\ utf8none))

\* The affected install whose UTF-8 install failed on its exit status: the
\* package still needs processing.
C22_Witness ==
    /\ result = "returned"
    /\ IsoVerdict(Some(TRUE))
    /\ \E j \in DOMAIN trace :
          Utf8Install(trace[j]) /\ trace[j].res = None /\ ~trace[j].timeout
    /\ Row.remove_duration = None
    /\ needs_proccessing(from_sql(cur[1], Row))

\* ------------------------------------------------------------------- C23
\* C23: process_package opens exactly one session when the verdict of the
\* ISO-8859-1 install is False or None and exactly two, the second after the
\* end of the first, when it is True; never more than two.
C23_SessionsPerCall ==
    /\ Begun(trace) <= 2
    /\ \A i, j \in DOMAIN trace :
          (i < j /\ trace[i].op = "begin" /\ trace[j].op = "begin") =>
              \E k \in DOMAIN trace : i < k /\ k < j /\ trace[k].op = "end"
    /\ result \in {"returned", "raised"} =>
          /\ (IsoVerdict(None) \/ IsoVerdict(Some(FALSE))) => Begun(trace) = 1
          /\ IsoVerdict(Some(TRUE)) => Begun(trace) = 2

\* An unaffected install whose get_version raised: one session; and
\* process_package has ended.
C23_Witness ==
    /\ result = "raised"
    /\ IsoVerdict(Some(FALSE))
    /\ Begun(trace) = 1
    /\ nopen = 0

\* ------------------------------------------------------------------- C24
\* C24: a package whose record says install_affected = False is never
\* yielded again by iter_unprocessed, for any retry threshold, in any state
\* reached through repeated process_matching runs.
C24_UnaffectedNeverYielded ==
    Fresh =>
        \A n \in Yielded(iter_unprocessed(cursor, params)) :
            table[n].install_affected # Some(0)

\* ------------------------------------------------------------------- C25
\* C25: a record whose remove_duration is set has install_affected = True:
\* removal results exist only for packages currently recorded as affected
\* by install.
C25_RemovalOnlyForAffected ==
    \A n \in DOMAIN table :
        table[n].remove_duration # None => table[n].install_affected = Some(1)

\* C26: the install columns are consistent in every state the driver reaches.
\* A record with install_duration unset has install_affected,
\* install_version, remove_affected and remove_duration unset; a record with
\* install_version set has install_affected True or False; and no step
\* unsets an install_duration that was set.
C26_InstallColumnsConsistent ==
    /\ [](\A n \in DOMAIN table :
              /\ table[n].install_duration = None => Unset(table[n])
              /\ table[n].install_version # None =>
                     table[n].install_affected \in {Some(0), Some(1)})
    /\ [][\A n \in DOMAIN table :
              table[n].install_duration # None =>
                  /\ n \in DOMAIN table'
                  /\ table'[n].install_duration # None]_vars

\* A retried record lost its version with its verdict: the ISO-8859-1
\* install of the retry was inconclusive after an earlier affected verdict
\* with a version and an inconclusive removal.
C26_Witness ==
    /\ pc = "idle"
    /\ \E n \in DOMAIN table :
          /\ table[n].install_affected = None
          /\ table[n].install_duration # None
          /\ table[n].install_version = None
          /\ table[n].remove_duration # None
    /\ \E n \in DOMAIN table : table[n].install_duration = None

\* ------------------------------------------------------------------- C29
\* C29: add_from_apt_cache on a table that holds results loses nothing.  For
\* every package stored before the call, whatever the cache says about it,
\* the source, the section and the five result fields are the same after the
\* call, so a package that needed no processing needs none afterwards.
C29_UpdateKeepsResults ==
    [][CallAddFromAptCache =>
          \A n \in DOMAIN table :
              /\ n \in DOMAIN table'
              /\ table'[n].source = table[n].source
              /\ table'[n].section = table[n].section
              /\ table'[n].install_affected = table[n].install_affected
              /\ table'[n].install_duration = table[n].install_duration
              /\ table'[n].install_version = table[n].install_version
              /\ table'[n].remove_affected = table[n].remove_affected
              /\ table'[n].remove_duration = table[n].remove_duration
              /\ (~needs_proccessing(from_sql(n, table[n])) =>
                     ~needs_proccessing(from_sql(n, table'[n])))]_vars

\* The cache offered a processed package anew, from Ubuntu, for the
\* architecture of the call and under another section than the stored one;
\* after the call the row holds its section and its results.
C29_Witness ==
    /\ out # None
    /\ out[1].fn = "add_from_apt_cache"
    /\ \E i \in DOMAIN arg[1].cache :
          LET package == arg[1].cache[i] IN
          /\ package.name \in DOMAIN table
          /\ Ubuntu(package, arg[1].architecture)
          /\ UbuntuVersion(package.versions)[1].component
                 # table[package.name].section
          /\ ~needs_proccessing(from_sql(package.name, table[package.name]))
          /\ table[package.name].remove_affected = Some(0)

\* ------------------------------------------------------------------- C30
\* A record eligible for a retry through its removal leg alone.
RemovalLegOnly(row, retry) ==
    /\ row.install_affected = Some(1)
    /\ row.remove_affected = None
    /\ row.remove_duration # None
    /\ row.remove_duration[1] <= retry

\* The last external command of a trace.
Latest(tr) == tr[Len(tr)]

\* C30: a record eligible for a retry through its removal leg alone is
\* processed from the start.  iter_unprocessed yields it; the first probe of
\* the call is the ISO-8859-1 install; an inconclusive or unaffected verdict
\* of that install is written over the install columns and ends the call
\* without a removal; an affected verdict leads to the UTF-8 install, whose
\* None is recorded and ends the call; and the removal probe is run only
\* after an affected ISO-8859-1 install, a UTF-8 install that returned
\* non-None and the writing of that install's duration and version.
C30_RemovalLegReprocessed ==
    /\ [](Fresh =>
            \A n \in DOMAIN table :
                (Matching(n) /\ RemovalLegOnly(table[n], params.retry)) =>
                    n \in Yielded(iter_unprocessed(cursor, params)))
    /\ []((pc = "install1" /\ RemovalLegOnly(Row, params.retry)) =>
            \A i \in DOMAIN trace : ~Probe(trace[i]))
    /\ [][(pc = "install1" /\ RemovalLegOnly(Row, params.retry)) =>
            /\ IsoInstall(Latest(trace'))
            /\ Latest(trace').res = None =>
                  /\ table' = [table EXCEPT
                                  ![cur[1]].install_affected = None,
                                  ![cur[1]].install_duration = Latest(trace').d,
                                  ![cur[1]].install_version = None]
                  /\ pc' = "exit1" /\ leaving' = "return"
            /\ Latest(trace').res = Some(FALSE) =>
                  (pc' = "version1" /\ table' = table)
            /\ Latest(trace').res = Some(TRUE) =>
                  (pc' = "exit1" /\ leaving' = "next" /\ table' = table)]_vars
    /\ [][(pc = "version1" /\ RemovalLegOnly(Row, params.retry)) =>
            /\ pc' = "exit1"
            /\ leaving' = "return" =>
                  table' = [table EXCEPT
                               ![cur[1]].install_affected = Some(0),
                               ![cur[1]].install_duration = Latest(trace).d,
                               ![cur[1]].install_version = Latest(trace').v]
            /\ leaving' = "raise" => table' = table]_vars
    /\ [][(pc = "install2" /\ RemovalLegOnly(Row, params.retry)) =>
            /\ Utf8Install(Latest(trace'))
            /\ Latest(trace').res = None =>
                  /\ table' = [table EXCEPT
                                  ![cur[1]].install_duration = Latest(trace').d,
                                  ![cur[1]].install_version = None]
                  /\ pc' = "exit2" /\ leaving' = "return"
            /\ Latest(trace').res # None =>
                  (pc' = "version2" /\ table' = table)]_vars
    /\ [][(pc' = "remove" /\ pc # "remove") =>
            /\ pc = "version2"
            /\ table' = [table EXCEPT
                            ![cur[1]].install_affected = Some(1),
                            ![cur[1]].install_duration = Latest(trace).d,
                            ![cur[1]].install_version = Latest(trace').v]]_vars
    /\ [][(Len(trace') > Len(trace) /\ Latest(trace').op = "remove") =>
            /\ pc = "remove"
            /\ \E i, j \in DOMAIN trace :
                  /\ i < j
                  /\ IsoInstall(trace[i]) /\ trace[i].res = Some(TRUE)
                  /\ Utf8Install(trace[j]) /\ trace[j].res # None
                  /\ Row.install_affected = Some(1)
                  /\ Row.install_duration = trace[j].d
                  /\ Row.install_version = Latest(trace).v]_vars

\* process_package runs on a record that was eligible through its removal
\* leg alone: the ISO-8859-1 install came out affected again, the UTF-8
\* install returned non-None, and the install columns are about to be
\* written before the removal is repeated.
C30_Witness ==
    /\ pc = "version2"
    /\ RemovalLegOnly(Row, params.retry)
    /\ ~needs_proccessing(from_sql(cur[1], Row))
    /\ IsoInstall(trace[2]) /\ trace[2].res = Some(TRUE)
    /\ Utf8Install(Latest(trace)) /\ Latest(trace).res # None

\* ------------------------------------------------------------------- C27
\* A step of process_package or of process_matching: every step but an
\* add_package, which leaves the driver idle.
RunStep == pc # "idle" \/ pc' # "idle"

\* C27: process_package(p) changes only the result fields of the row of p.
\* No step of a process_package or a process_matching adds or drops a row,
\* changes the source or the section of a row, or changes a row of another
\* package; and a call for a name that is not stored runs its probes and
\* leaves the whole table as it was.
C27_OnlyResultsOfRow ==
    /\ [][RunStep =>
            /\ DOMAIN table' = DOMAIN table
            /\ \A n \in DOMAIN table :
                  /\ table'[n].source = table[n].source
                  /\ table'[n].section = table[n].section
                  /\ (cur = None \/ n # cur[1]) => table'[n] = table[n]
            /\ (cur # None /\ cur[1] \notin DOMAIN table) =>
                  (table' = table /\ disk' = disk)]_vars
    /\ []((pc = "called" /\ cur[1] \notin DOMAIN table) =>
            /\ \E i \in DOMAIN trace : IsoInstall(trace[i])
            /\ Begun(trace) = 1 <=> trace[2].res # Some(TRUE))

\* process_package was called for a name that is not stored, beside a stored
\* row with results: both installs and the removal have run.
C27_Witness ==
    /\ pc = "called"
    /\ cur[1] \notin DOMAIN table
    /\ \E i \in DOMAIN trace : trace[i].op = "remove" /\ trace[i].res = Some(TRUE)
    /\ \E n \in DOMAIN table : table[n].install_duration # None

\* ------------------------------------------------------------------- C28
\* The names of the rows the cursor has still to fetch.
Ahead == {cursor[i].name : i \in DOMAIN cursor}

\* C28: a process_matching run over a finite table terminates when every
\* probe returns or times out, by returning or by the exception of
\* get_version, and processes each stored package at most once.  The rows
\* the cursor has still to fetch have distinct names, only a fetch changes
\* them and it only drops rows from the front; a call of process_package
\* begins with the fetch of its package, which is never ahead of the cursor
\* afterwards, whatever process_package writes into the table.
C28_RunTerminates ==
    /\ <>(pc \in {"idle", "raised"})
    /\ [](\A i, j \in DOMAIN cursor : cursor[i].name = cursor[j].name => i = j)
    /\ [](cur # None => cur[1] \notin Ahead)
    /\ [][cursor' # cursor =>
            /\ pc = "iter"
            /\ \E k \in 1..Len(cursor) :
                  cursor' = SubSeq(cursor, k + 1, Len(cursor))]_vars
    /\ [][(pc' = "enter1" /\ pc # "enter1") =>
            /\ pc = "iter"
            /\ cur'[1] \in Ahead
            /\ cur = None \/ cur'[1] # cur[1]]_vars
    /\ [][table' # table => DOMAIN table' = DOMAIN table]_vars

\* Between two packages of a run: the package just processed is in the table
\* as one that matches and is to be retried, and the cursor has another row
\* to fetch.
C28_Witness ==
    /\ pc = "iter"
    /\ result = "returned"
    /\ cur # None
    /\ Matching(cur[1])
    /\ needs_retry(from_sql(cur[1], Row), params.retry)
    /\ cursor # <<>>
    /\ Unprocessed(Head(cursor), params.only, params.section, params.retry)

\* ------------------------------------------------------------------- C31
\* A with-block is running: run() can be called.
InBlock == pc \in {"install1", "version1", "install2", "version2", "remove"}

\* Control is leaving a with-block: __exit__ is entered.
AtExit == pc \in {"exit1", "exit2"}

\* The last schroot -b of the trace before place i, or 0.
LastBegin(i) ==
    LET before == {j \in 1..(i - 1) : trace[j].op = "begin"} IN
    IF before = {} THEN 0 ELSE CHOOSE j \in before : \A k \in before : k <= j

\* C31: the assertions of SchrootSession hold whenever process_package
\* reaches them.  While a with-block runs the attribute is set, to the
\* identifier the schroot -b of this block printed, without the newline, and
\* no schroot -e has followed; every install, get_version and remove of the
\* trace ran under the identifier of the last begin before it; __exit__ is
\* entered with a set and non-empty attribute; and everywhere else, before
\* __enter__ and after __exit__, the attribute is None.
C31_SessionAssertions ==
    /\ InBlock =>
          /\ AssertRun(session)
          /\ LastBegin(Len(trace) + 1) # 0
          /\ session[1] = <<trace[LastBegin(Len(trace) + 1)].s>>
          /\ \A j \in LastBegin(Len(trace) + 1)..Len(trace) : trace[j].op # "end"
    /\ AtExit =>
          /\ AssertExit(session)
          /\ session[1] = <<trace[LastBegin(Len(trace) + 1)].s>>
    /\ (~InBlock /\ ~AtExit) => session = None
    /\ \A i \in DOMAIN trace :
          trace[i].op \in {"install", "get_version", "remove"} =>
              /\ LastBegin(i) # 0
              /\ trace[i].s = trace[LastBegin(i)].s
              /\ \A j \in LastBegin(i)..i : trace[j].op # "end"

\* The removal is about to run in the second session of a call: the first
\* session was ended, get_version ran under the second identifier, and the
\* attribute holds it.
C31_Witness ==
    /\ pc = "remove"
    /\ session = Some(<<2>>)
    /\ \E i \in DOMAIN trace : trace[i].op = "end" /\ trace[i].s = 1
    /\ trace[Len(trace)].op = "get_version"
    /\ trace[Len(trace)].s = 2
====
